---- MODULE Spec2Model ----
(***************************************************************************)
(* Model of app.py (Career Roadmap Generator).                             *)
(*                                                                         *)
(* Text is modelled as a sequence of one-character strings, so that the    *)
(* slicing, stripping and splitting of the source are computed character   *)
(* by character.  Decoded JSON values are records tagged by their type:    *)
(*   [t |-> "null"]  [t |-> "bool", b]  [t |-> "num", n]  [t |-> "str", s] *)
(*   [t |-> "arr", a]  [t |-> "obj", m]   (m: function from keys to values)*)
(* Python's None is the decoded null.                                      *)
(***************************************************************************)
EXTENDS Integers, Sequences, FiniteSets, TLC

VARIABLES
    phase_name,     \* plot_timeline: the label of the phase being parsed
    label_parts,    \* how that label was put together (input bookkeeping)
    start_end,      \* plot_timeline: the (start, end) pair parsed from it
    response,       \* generate_roadmap: what model.generate_content produced
    payload_parts,  \* how that response was put together (input bookkeeping)
    result,         \* generate_roadmap: return value and what was reported
    roadmap_data,   \* plot_timeline: its argument
    plotted,        \* plot_timeline: gantt_data and whether the chart was drawn
    session_state,  \* st.session_state
    page            \* what the last run of main() put on the page

vars == << phase_name, label_parts, start_end, response, payload_parts, result,
           roadmap_data, plotted, session_state, page >>

(***************************************************************************)
(* Bounds of the model.                                                    *)
(***************************************************************************)
MaxLabelLen == 6
MaxPad == 1
MaxRawLen == 6
MaxPhases == 2
MaxAreas == 2

(***************************************************************************)
(* Values.                                                                 *)
(***************************************************************************)
None == [t |-> "null"]
BoolV(b) == [t |-> "bool", b |-> b]
NumV(n) == [t |-> "num", n |-> n]
StrV(s) == [t |-> "str", s |-> s]
ArrV(a) == [t |-> "arr", a |-> a]
ObjV(m) == [t |-> "obj", m |-> m]
Idle == [t |-> "idle"]

\* the parts of the program a specification leaves out stay idle
IdleTimeline == roadmap_data = Idle /\ plotted = Idle
IdleNormalizer == response = Idle /\ payload_parts = Idle /\ result = Idle
IdleSession == session_state = Idle /\ page = Idle
IdleExtractor == phase_name = Idle /\ label_parts = Idle /\ start_end = Idle

\* Python truthiness of a decoded value (if roadmap: / if not roadmap_data:)
Truthy(v) ==
    CASE v.t = "null" -> FALSE
      [] v.t = "bool" -> v.b
      [] v.t = "num" -> v.n # 0
      [] v.t = "str" -> v.s # <<>>
      [] v.t = "arr" -> v.a # <<>>
      [] v.t = "obj" -> DOMAIN v.m # {}
      [] OTHER -> TRUE

(***************************************************************************)
(* Text helpers, computed as the str methods compute them.                 *)
(***************************************************************************)
DigitChars == <<"0", "1", "2", "3", "4", "5", "6", "7", "8", "9">>
Whitespace == {" ", "\n"}

IsDigit(c) == \E i \in 1..10 : DigitChars[i] = c
DigitValue(c) == (CHOOSE i \in 1..10 : DigitChars[i] = c) - 1

\* all texts over an alphabet of at most n characters
TextsUpTo(alphabet, n) == UNION { [1..k -> alphabet] : k \in 0..n }

\* s.split(c) for a one-character separator c
RECURSIVE Split(_, _)
Split(s, c) ==
    IF s = <<>> THEN << <<>> >>
    ELSE LET r == Split(Tail(s), c)
         IN IF Head(s) = c THEN << <<>> >> \o r
            ELSE << <<Head(s)>> \o r[1] >> \o Tail(r)

\* ''.join(filter(str.isdigit, s))
DigitsOf(s) == SelectSeq(s, IsDigit)

\* int(s) of a non-empty text of decimal digits
RECURSIVE ToInt(_)
ToInt(s) ==
    IF s = <<>> THEN 0
    ELSE 10 * ToInt(SubSeq(s, 1, Len(s) - 1)) + DigitValue(s[Len(s)])

\* str(n) for a natural number n
RECURSIVE NatToStr(_)
NatToStr(n) ==
    IF n < 10 THEN << DigitChars[n + 1] >>
    ELSE NatToStr(n \div 10) \o << DigitChars[(n % 10) + 1] >>

\* s.strip()
RECURSIVE LStrip(_)
LStrip(s) == IF s # <<>> /\ Head(s) \in Whitespace THEN LStrip(Tail(s)) ELSE s
RECURSIVE RStrip(_)
RStrip(s) ==
    IF s # <<>> /\ s[Len(s)] \in Whitespace THEN RStrip(SubSeq(s, 1, Len(s) - 1)) ELSE s
Strip(s) == RStrip(LStrip(s))

\* s.startswith(p)
StartsWith(s, p) == Len(s) >= Len(p) /\ SubSeq(s, 1, Len(p)) = p

\* s[i:-j]: drop the first i and the last j characters
Slice(s, i, j) == SubSeq(s, i + 1, Len(s) - j)

\* sep.join(items) for a sequence of texts
RECURSIVE Join(_, _)
Join(sep, items) ==
    IF items = <<>> THEN <<>>
    ELSE IF Len(items) = 1 THEN items[1]
    ELSE items[1] \o sep \o Join(sep, Tail(items))

(***************************************************************************)
(* plot_timeline, lines 88-96: the month range of one phase label.         *)
(***************************************************************************)
Fallback == <<0, 3>>

\* phase_name.split("(")[-1].split(")")[0]
TimeRange(s) ==
    LET after == Split(s, "(") IN Split(after[Len(after)], ")")[1]

\* time_range.split("-")[:2]
Pieces(s) ==
    LET p == Split(TimeRange(s), "-") IN SubSeq(p, 1, IF Len(p) < 2 THEN Len(p) ELSE 2)

\* A variant that reads an empty first piece as a minus sign of the second.
ExtractRangeSigned(label) ==
    IF label.t # "str" THEN Fallback
    ELSE LET p == Split(TimeRange(label.s), "-")
         IN IF Len(p) >= 3 /\ p[1] = <<>> /\ DigitsOf(p[2]) # <<>> /\ DigitsOf(p[3]) # <<>>
            THEN << 0 - ToInt(DigitsOf(p[2])), ToInt(DigitsOf(p[3])) >>
            ELSE IF Len(p) < 2 \/ DigitsOf(p[1]) = <<>> \/ DigitsOf(p[2]) = <<>>
            THEN Fallback
            ELSE << ToInt(DigitsOf(p[1])), ToInt(DigitsOf(p[2])) >>

\* A variant that looks for the range after the first "(" instead of the last.
ExtractRangeFirstParen(label) ==
    IF label.t # "str" THEN Fallback
    ELSE LET after == Split(label.s, "(")
             tr == Split(after[IF Len(after) >= 2 THEN 2 ELSE 1], ")")[1]
             p == Split(tr, "-")
         IN IF Len(p) < 2 \/ DigitsOf(p[1]) = <<>> \/ DigitsOf(p[2]) = <<>>
            THEN Fallback
            ELSE << ToInt(DigitsOf(p[1])), ToInt(DigitsOf(p[2])) >>

\* the try/except of lines 89-96
ExtractRange(label) ==
    IF label.t # "str" THEN Fallback                        \* AttributeError
    ELSE LET p == Pieces(label.s)
         IN IF Len(p) < 2 THEN Fallback                      \* ValueError (unpacking)
            ELSE IF DigitsOf(p[1]) = <<>> \/ DigitsOf(p[2]) = <<>>
            THEN Fallback                                    \* ValueError (int(''))
            ELSE << ToInt(DigitsOf(p[1])), ToInt(DigitsOf(p[2])) >>

(***************************************************************************)
(* json.loads, for the JSON this model writes: objects, arrays, strings    *)
(* without escapes, integers, true/false/null, with JSON whitespace        *)
(* between tokens.  An object is decoded to its (key, value) pairs in      *)
(* insertion order, a repeated key keeping its place and taking the last   *)
(* value, as a Python dict does.                                           *)
(***************************************************************************)
Quote == "\""
NoValue == [ok |-> FALSE]
ValueAt(v, i) == [ok |-> TRUE, v |-> v, i |-> i]

\* index of the first character at or after i that is not whitespace
SkipWs(s, i) ==
    LET rest == { j \in i..Len(s) : s[j] \notin Whitespace }
    IN IF rest = {} THEN Len(s) + 1 ELSE CHOOSE j \in rest : \A k \in rest : j <= k

At(s, i, c) == i <= Len(s) /\ s[i] = c
LiteralAt(s, i, lit) == i + Len(lit) - 1 <= Len(s) /\ SubSeq(s, i, i + Len(lit) - 1) = lit

\* a string starting at the quote s[i]
ParseString(s, i) ==
    LET ends == { j \in (i + 1)..Len(s) : s[j] = Quote }
    IN IF ends = {} THEN NoValue
       ELSE LET j == CHOOSE e \in ends : \A k \in ends : e <= k
            IN IF \E k \in (i + 1)..(j - 1) : s[k] = "\n" THEN NoValue
               ELSE ValueAt(StrV(SubSeq(s, i + 1, j - 1)), j + 1)

\* an integer starting at s[i]: -? (0 | [1-9][0-9]*)
ParseNumber(s, i) ==
    LET neg == At(s, i, "-")
        d == IF neg THEN i + 1 ELSE i
        stops == { j \in d..Len(s) : ~IsDigit(s[j]) }
        e == IF stops = {} THEN Len(s) + 1 ELSE CHOOSE j \in stops : \A k \in stops : j <= k
    IN IF e = d THEN NoValue
       ELSE IF s[d] = "0" THEN ValueAt(NumV(0), d + 1)
       ELSE ValueAt(NumV(IF neg THEN 0 - ToInt(SubSeq(s, d, e - 1))
                                ELSE ToInt(SubSeq(s, d, e - 1))), e)

\* d[key] = v on the pairs of an object
SetPair(pairs, key, v) ==
    IF \E n \in 1..Len(pairs) : pairs[n][1] = key
    THEN [n \in 1..Len(pairs) |-> IF pairs[n][1] = key THEN <<key, v>> ELSE pairs[n]]
    ELSE Append(pairs, <<key, v>>)

RECURSIVE ParseValue(_, _), ParseElements(_, _, _), ParseMembers(_, _, _)

ParseValue(s, i) ==
    LET j == SkipWs(s, i)
    IN IF j > Len(s) THEN NoValue
       ELSE IF s[j] = "{"
       THEN IF At(s, SkipWs(s, j + 1), "}")
            THEN ValueAt(ObjV(<<>>), SkipWs(s, j + 1) + 1)
            ELSE ParseMembers(s, j + 1, <<>>)
       ELSE IF s[j] = "["
       THEN IF At(s, SkipWs(s, j + 1), "]")
            THEN ValueAt(ArrV(<<>>), SkipWs(s, j + 1) + 1)
            ELSE ParseElements(s, j + 1, <<>>)
       ELSE IF s[j] = Quote THEN ParseString(s, j)
       ELSE IF s[j] = "-" \/ IsDigit(s[j]) THEN ParseNumber(s, j)
       ELSE IF LiteralAt(s, j, <<"n", "u", "l", "l">>) THEN ValueAt(None, j + 4)
       ELSE IF LiteralAt(s, j, <<"t", "r", "u", "e">>) THEN ValueAt(BoolV(TRUE), j + 4)
       ELSE IF LiteralAt(s, j, <<"f", "a", "l", "s", "e">>) THEN ValueAt(BoolV(FALSE), j + 5)
       ELSE NoValue

ParseElements(s, i, acc) ==
    LET r == ParseValue(s, i)
    IN IF ~r.ok THEN NoValue
       ELSE LET k == SkipWs(s, r.i)
            IN IF At(s, k, ",") THEN ParseElements(s, k + 1, Append(acc, r.v))
               ELSE IF At(s, k, "]") THEN ValueAt(ArrV(Append(acc, r.v)), k + 1)
               ELSE NoValue

ParseMembers(s, i, acc) ==
    LET j == SkipWs(s, i)
    IN IF ~At(s, j, Quote) THEN NoValue
       ELSE LET key == ParseString(s, j)
            IN IF ~key.ok THEN NoValue
               ELSE IF ~At(s, SkipWs(s, key.i), ":") THEN NoValue
               ELSE LET r == ParseValue(s, SkipWs(s, key.i) + 1)
                    IN IF ~r.ok THEN NoValue
                       ELSE LET k == SkipWs(s, r.i)
                                members == SetPair(acc, key.v.s, r.v)
                            IN IF At(s, k, ",") THEN ParseMembers(s, k + 1, members)
                               ELSE IF At(s, k, "}") THEN ValueAt(ObjV(members), k + 1)
                               ELSE NoValue

\* json.loads(s): the whole text must be one value; NoValue stands for JSONDecodeError
JsonLoads(s) ==
    LET r == ParseValue(s, 1)
    IN IF r.ok /\ SkipWs(s, r.i) > Len(s) THEN [ok |-> TRUE, v |-> r.v] ELSE NoValue

(***************************************************************************)
(* generate_roadmap, lines 55-77.                                          *)
(***************************************************************************)
\* The backquote of a fence marker is written "'": a TLA+ string cannot hold
\* the backquote character itself.
Tick == "'"
Fence == <<Tick, Tick, Tick>>
JsonFence == Fence \o <<"j", "s", "o", "n">>

\* A variant that slices a language-tagged fence like the generic one.
StripFencesUntagged(text) ==
    LET response_text == Strip(text)
    IN IF StartsWith(response_text, Fence) THEN Strip(Slice(response_text, 3, 3))
       ELSE response_text

\* lines 62-66
StripFences(text) ==
    LET response_text == Strip(text)
    IN IF StartsWith(response_text, JsonFence) THEN Strip(Slice(response_text, 7, 3))
       ELSE IF StartsWith(response_text, Fence) THEN Strip(Slice(response_text, 3, 3))
       ELSE response_text

Raised == [t |-> "raise"]
NoCode == [t |-> "nocode"]
Returned(ret, error, code) == [ret |-> ret, error |-> error, code |-> code, calls |-> 1]

\* A variant that shows the stripped text when decoding fails.
GenerateRoadmapShowsStripped(resp) ==
    IF resp = Raised THEN Returned(None, "API Error", NoCode)
    ELSE IF ~Truthy(resp) THEN Returned(None, "Empty response from API", NoCode)
    ELSE IF JsonLoads(StripFences(resp.s)).ok
    THEN Returned(JsonLoads(StripFences(resp.s)).v, "", NoCode)
    ELSE Returned(None, "Failed to parse JSON response. Raw response:",
                  StrV(StripFences(resp.s)))

\* resp is what model.generate_content(prompt).text gives: a text, None, or
\* Raised when the call throws.  One call of the service per invocation.
GenerateRoadmap(resp) ==
    IF resp = Raised THEN Returned(None, "API Error", NoCode)                     \* 75-77
    ELSE IF ~Truthy(resp) THEN Returned(None, "Empty response from API", NoCode)  \* 57-59
    ELSE IF JsonLoads(StripFences(resp.s)).ok
    THEN Returned(JsonLoads(StripFences(resp.s)).v, "", NoCode)                   \* 68-69
    ELSE Returned(None, "Failed to parse JSON response. Raw response:", resp)     \* 71-74

\* the keys of the structure the prompt asks for, lines 40-52
K_roadmap_name == <<"r", "o", "a", "d", "m", "a", "p", "_", "n", "a", "m", "e">>
K_gap_analysis == <<"g", "a", "p", "_", "a", "n", "a", "l", "y", "s", "i", "s">>
K_timeline == <<"t", "i", "m", "e", "l", "i", "n", "e">>
K_estimated_time == <<"e", "s", "t", "i", "m", "a", "t", "e", "d", "_", "t", "i", "m", "e">>
K_phase == <<"p", "h", "a", "s", "e">>
K_focus_areas == <<"f", "o", "c", "u", "s", "_", "a", "r", "e", "a", "s">>
K_milestones == <<"m", "i", "l", "e", "s", "t", "o", "n", "e", "s">>
K_tasks == <<"t", "a", "s", "k", "s">>

(***************************************************************************)
(* Access to decoded values, as the Python operations behave on them.      *)
(***************************************************************************)
\* v[key] succeeds: v is a dict holding key (else KeyError or TypeError)
HasKey(v, key) == v.t = "obj" /\ \E n \in 1..Len(v.m) : v.m[n][1] = key
Get(v, key) == v.m[CHOOSE n \in 1..Len(v.m) : v.m[n][1] = key][2]

\* for x in v succeeds: v is a list, a str (its characters) or a dict (its keys)
Iterable(v) == v.t \in {"arr", "str", "obj"}
Items(v) ==
    CASE v.t = "arr" -> v.a
      [] v.t = "str" -> [i \in 1..Len(v.s) |-> StrV(<< v.s[i] >>)]
      [] v.t = "obj" -> [i \in 1..Len(v.m) |-> StrV(v.m[i][1])]

\* sep.join(v) succeeds: every item is a str
Joinable(v) == Iterable(v) /\ \A i \in 1..Len(Items(v)) : Items(v)[i].t = "str"
JoinItems(sep, v) == Join(sep, [i \in 1..Len(Items(v)) |-> Items(v)[i].s])

(***************************************************************************)
(* plot_timeline, lines 79-127.                                            *)
(***************************************************************************)
RaisedIn == [raised |-> TRUE, gantt_data |-> <<>>, chart |-> FALSE]
Rows(rows) == [raised |-> FALSE, rows |-> rows]
NoRows == [raised |-> TRUE, rows |-> <<>>]

Row(area, label, range, phase) ==
    [ Task |-> area, Phase |-> label, Start |-> range[1], Finish |-> range[2],
      Milestones |-> JoinItems(<<"\n">>, Get(phase, K_milestones)) ]

\* A variant that appends one record per phase, for its first focus area only.
PhaseRowsFirstAreaOnly(phase) ==
    IF ~HasKey(phase, K_phase) \/ ~HasKey(phase, K_focus_areas) THEN NoRows
    ELSE IF ~Iterable(Get(phase, K_focus_areas)) THEN NoRows
    ELSE IF Items(Get(phase, K_focus_areas)) = <<>> THEN Rows(<<>>)
    ELSE IF ~HasKey(phase, K_milestones) THEN NoRows
    ELSE IF ~Joinable(Get(phase, K_milestones)) THEN NoRows
    ELSE Rows(<< Row(Items(Get(phase, K_focus_areas))[1], Get(phase, K_phase),
                     ExtractRange(Get(phase, K_phase)), phase) >>)

\* the body of the loop over the phases, lines 86-105
PhaseRows(phase) ==
    IF ~HasKey(phase, K_phase) THEN NoRows                        \* line 86
    ELSE IF ~HasKey(phase, K_focus_areas) THEN NoRows             \* line 98
    ELSE IF ~Iterable(Get(phase, K_focus_areas)) THEN NoRows
    ELSE IF Items(Get(phase, K_focus_areas)) = <<>> THEN Rows(<<>>)
    ELSE IF ~HasKey(phase, K_milestones) THEN NoRows              \* line 104
    ELSE IF ~Joinable(Get(phase, K_milestones)) THEN NoRows
    ELSE Rows([i \in 1..Len(Items(Get(phase, K_focus_areas))) |->
                Row(Items(Get(phase, K_focus_areas))[i], Get(phase, K_phase),
                    ExtractRange(Get(phase, K_phase)), phase)])

\* the loop of lines 85-105 over the phases; an exception ends it
RECURSIVE GanttData(_, _)
GanttData(phases, gantt_data) ==
    IF phases = <<>> THEN Rows(gantt_data)
    ELSE IF PhaseRows(phases[1]).raised THEN NoRows
    ELSE GanttData(Tail(phases), gantt_data \o PhaseRows(phases[1]).rows)

\* A variant without the return of lines 107-108.
PlotTimelineAlwaysDraws(data) ==
    IF ~Truthy(data) THEN [raised |-> FALSE, gantt_data |-> <<>>, chart |-> FALSE]
    ELSE IF data.t # "obj" THEN RaisedIn
    ELSE IF HasKey(data, K_timeline) /\ ~Iterable(Get(data, K_timeline)) THEN RaisedIn
    ELSE LET g == GanttData(IF HasKey(data, K_timeline) THEN Items(Get(data, K_timeline))
                            ELSE <<>>, <<>>)
         IN IF g.raised THEN RaisedIn
            ELSE [raised |-> FALSE, gantt_data |-> g.rows, chart |-> TRUE]

\* plot_timeline(roadmap_data): the records built, whether px.timeline and
\* st.plotly_chart were reached, and whether an exception left the function
PlotTimeline(data) ==
    IF ~Truthy(data)                                               \* lines 80-81
    THEN [raised |-> FALSE, gantt_data |-> <<>>, chart |-> FALSE]
    ELSE IF data.t # "obj" THEN RaisedIn                           \* .get, line 85
    ELSE IF HasKey(data, K_timeline) /\ ~Iterable(Get(data, K_timeline)) THEN RaisedIn
    ELSE LET g == GanttData(IF HasKey(data, K_timeline) THEN Items(Get(data, K_timeline))
                            ELSE <<>>, <<>>)
         IN IF g.raised THEN RaisedIn
            ELSE [raised |-> FALSE, gantt_data |-> g.rows,
                  chart |-> g.rows # <<>>]                         \* lines 107-127

(***************************************************************************)
(* main, lines 129-184.                                                    *)
(***************************************************************************)
Absent == [t |-> "absent"]

\* A variant that stores whatever generate_roadmap returned.
StoreAlways(held, roadmap) == roadmap

\* lines 145-146: if roadmap: st.session_state.roadmap = roadmap
Store(held, roadmap) == IF Truthy(roadmap) THEN roadmap ELSE held

\* one phase of the detailed timeline raises, lines 161-165
DetailRaises(phase) ==
    \/ ~HasKey(phase, K_phase)
    \/ ~HasKey(phase, K_focus_areas)
    \/ ~Joinable(Get(phase, K_focus_areas))
    \/ ~HasKey(phase, K_tasks)
    \/ ~Iterable(Get(phase, K_tasks))

\* the Roadmap tab raises, lines 155-165
RoadmapTabRaises(roadmap) ==
    \/ ~HasKey(roadmap, K_roadmap_name)
    \/ ~HasKey(roadmap, K_gap_analysis)
    \/ PlotTimeline(roadmap).raised
    \/ ~HasKey(roadmap, K_timeline)
    \/ ~Iterable(Get(roadmap, K_timeline))
    \/ \E i \in 1..Len(Items(Get(roadmap, K_timeline))) :
            DetailRaises(Items(Get(roadmap, K_timeline))[i])

\* lines 151-184: what each of the three tabs shows.  An exception in the
\* Roadmap tab is caught by nothing and ends the run of the script.
Tabs(held, projects_ok, search_ok) ==
    IF held = Absent THEN <<"none", "none", "none">>
    ELSE IF RoadmapTabRaises(held) THEN <<"raised", "none", "none">>
    ELSE << "shown", IF projects_ok THEN "shown" ELSE "error",
            IF search_ok THEN "shown" ELSE "error" >>

(***************************************************************************)
(* Roadmaps and the texts a response carries them in.                      *)
(***************************************************************************)
Phase(label, areas, milestones, tasks) ==
    ObjV(<< <<K_phase, label>>, <<K_focus_areas, ArrV(areas)>>,
            <<K_milestones, ArrV(milestones)>>, <<K_tasks, ArrV(tasks)>> >>)

Roadmap(name, phases) ==
    ObjV(<< <<K_roadmap_name, StrV(name)>>, <<K_gap_analysis, StrV(<<"g">>)>>,
            <<K_timeline, ArrV(phases)>>, <<K_estimated_time, StrV(<<"3", " ", "m">>)>> >>)

\* json.dumps(v) with the text sp after every "," and ":"
RECURSIVE Encode(_, _), EncodeElements(_, _), EncodeMembers(_, _)
Encode(v, sp) ==
    CASE v.t = "null" -> <<"n", "u", "l", "l">>
      [] v.t = "bool" -> IF v.b THEN <<"t", "r", "u", "e">> ELSE <<"f", "a", "l", "s", "e">>
      [] v.t = "num" -> IF v.n < 0 THEN <<"-">> \o NatToStr(0 - v.n) ELSE NatToStr(v.n)
      [] v.t = "str" -> <<Quote>> \o v.s \o <<Quote>>
      [] v.t = "arr" -> <<"[">> \o EncodeElements(v.a, sp) \o <<"]">>
      [] v.t = "obj" -> <<"{">> \o EncodeMembers(v.m, sp) \o <<"}">>
EncodeElements(a, sp) ==
    IF a = <<>> THEN <<>>
    ELSE Encode(a[1], sp) \o (IF Len(a) = 1 THEN <<>> ELSE <<",">> \o sp \o EncodeElements(Tail(a), sp))
EncodeMembers(m, sp) ==
    IF m = <<>> THEN <<>>
    ELSE <<Quote>> \o m[1][1] \o <<Quote, ":">> \o sp \o Encode(m[1][2], sp)
            \o (IF Len(m) = 1 THEN <<>> ELSE <<",">> \o sp \o EncodeMembers(Tail(m), sp))

\* a text with the whitespace outside its strings removed
RECURSIVE Compact(_, _)
Compact(s, inString) ==
    IF s = <<>> THEN <<>>
    ELSE IF Head(s) = Quote THEN <<Quote>> \o Compact(Tail(s), ~inString)
    ELSE IF ~inString /\ Head(s) \in Whitespace THEN Compact(Tail(s), inString)
    ELSE <<Head(s)>> \o Compact(Tail(s), inString)

SamplePhase ==
    Phase(StrV(<<"P", " ", "(", "0", "-", "3", " ", "m", ")">>),
          << StrV(<<"S", "Q", "L">>) >>, << StrV(<<"m", "1">>) >>, << StrV(<<"t", "1">>) >>)

\* roadmaps of the shape the prompt asks for
SchemaRoadmaps == { Roadmap(<<"X">>, << SamplePhase >>), Roadmap(<<"Y">>, <<>>) }

\* other values a response can decode to
OtherValues ==
    { ObjV(<<>>), ObjV(<< <<K_roadmap_name, StrV(<<"X">>)>> >>),
      NumV(1), NumV(0), None, ArrV(<<>>), ArrV(<< NumV(1) >>), StrV(<<"x">>) }

Gaps == { <<>>, <<" ">>, <<"\n">> }
RawChars == {Tick, " ", "{", "}", "1"}

FencedParts ==
    [ kind : {"fenced"}, lead : Gaps, open : {<<>>, Fence, JsonFence}, gap1 : Gaps,
      v : SchemaRoadmaps \cup OtherValues, sp : {<<>>, <<" ">>},
      gap2 : Gaps, close : {<<>>, Fence}, trail : Gaps ]

ResponseOf(parts) ==
    parts.lead \o parts.open \o parts.gap1 \o Encode(parts.v, parts.sp)
        \o parts.gap2 \o parts.close \o parts.trail

InitNormalize ==
    /\ \/ /\ payload_parts \in FencedParts
          /\ response = StrV(ResponseOf(payload_parts))
       \/ /\ payload_parts = [kind |-> "raw"]
          /\ response \in { StrV(s) : s \in TextsUpTo(RawChars, MaxRawLen) } \cup { None, Raised }
    /\ result = Idle
    /\ IdleExtractor /\ IdleTimeline /\ IdleSession

\* generate_roadmap(current_status, target_role, experience), lines 32-77
CallGenerateRoadmap ==
    /\ result = Idle
    /\ result' = GenerateRoadmap(response)
    /\ UNCHANGED << phase_name, label_parts, start_end, response, payload_parts,
                    roadmap_data, plotted, session_state, page >>

NextNormalize == CallGenerateRoadmap

SpecNormalize == InitNormalize /\ [][NextNormalize]_vars

Generated == result # Idle
IsPayloadOf(kinds) == payload_parts.kind = "fenced" /\ payload_parts.v \in kinds

\* C3: a response with a leading fence, a valid payload and no closing fence
\* is decoded to that payload, no character of the payload being removed.
C3_TrailingFenceOnlyIfPresent ==
    (Generated /\ IsPayloadOf(SchemaRoadmaps)
        /\ payload_parts.open # <<>> /\ payload_parts.close = <<>>)
        => /\ result.ret = payload_parts.v
           /\ StripFences(response.s) = Encode(payload_parts.v, payload_parts.sp)

\* C4: a roadmap payload, bare or between a generic or a language-tagged
\* opening fence and a closing fence, with any whitespace around, is returned
\* as the roadmap it encodes; the stripped text is the payload itself and
\* stripping it again changes nothing.
C4_FencedPayloadRecovered ==
    (Generated /\ IsPayloadOf(SchemaRoadmaps)
        /\ \/ payload_parts.open = <<>> /\ payload_parts.close = <<>>
           \/ payload_parts.open # <<>> /\ payload_parts.close = Fence)
        => /\ result.ret = payload_parts.v
           /\ result.error = ""
           /\ StripFences(response.s) = Encode(payload_parts.v, payload_parts.sp)
           /\ StripFences(StripFences(response.s)) = StripFences(response.s)

C4_Witness ==
    /\ Generated /\ IsPayloadOf({ Roadmap(<<"X">>, << SamplePhase >>) })
    /\ payload_parts.open = JsonFence /\ payload_parts.close = Fence
    /\ payload_parts.lead = <<" ">> /\ payload_parts.gap1 = <<"\n">>
    /\ payload_parts.gap2 = <<"\n">> /\ payload_parts.trail = <<"\n">>
    /\ result.ret = Roadmap(<<"X">>, << SamplePhase >>)

OnlyFencesAndSpace(s) == s # <<>> /\ \A i \in 1..Len(s) : s[i] \in Whitespace \cup {Tick}

AreaNames(k) == [i \in 1..k |-> StrV(<<"A">> \o NatToStr(i))]

TimelineLabels ==
    { StrV(<<"P", " ", "(", "0", "-", "3", " ", "m", ")">>),
      StrV(<<"(", "6", "-", "3", " ", "m", ")">>),
      StrV(<<"F">>),
      NumV(1) }

MilestoneLists == { << StrV(<<"m", "1">>) >>, << StrV(<<"m", "1">>), StrV(<<"m", "2">>) >> }

TimelinePhases ==
    { Phase(label, AreaNames(k), ms, << StrV(<<"t", "1">>) >>) :
        label \in TimelineLabels, k \in 0..MaxAreas, ms \in MilestoneLists }

TimelineRoadmaps ==
    { Roadmap(<<"X">>, phases) : phases \in TextsUpTo(TimelinePhases, MaxPhases) }
        \cup { ObjV(<< <<K_roadmap_name, StrV(<<"X">>)>> >>), ObjV(<<>>), None }

InitTimeline ==
    /\ roadmap_data \in TimelineRoadmaps
    /\ plotted = Idle
    /\ IdleExtractor /\ IdleNormalizer /\ IdleSession

\* plot_timeline(roadmap_data), lines 79-127
CallPlotTimeline ==
    /\ plotted = Idle
    /\ plotted' = PlotTimeline(roadmap_data)
    /\ UNCHANGED << phase_name, label_parts, start_end, response, payload_parts, result,
                    roadmap_data, session_state, page >>

NextTimeline == CallPlotTimeline

SpecTimeline == InitTimeline /\ [][NextTimeline]_vars

Plotted == plotted # Idle
PhasesOf(data) == IF HasKey(data, K_timeline) THEN Get(data, K_timeline).a ELSE <<>>
AreasOf(phase) == Get(phase, K_focus_areas).a

\* number of focus areas in the first n phases
RECURSIVE AreaCount(_, _)
AreaCount(phases, n) ==
    IF n = 0 THEN 0 ELSE AreaCount(phases, n - 1) + Len(AreasOf(phases[n]))

\* C8: one record per (phase, focus area) pair, in phase order and then in
\* focus-area order, each with the label, range and newline-joined
\* milestones of its own phase; their number is the sum of the phases'
\* focus-area counts.
C8_OneRecordPerFocusArea ==
    Plotted =>
        LET phases == PhasesOf(roadmap_data)
        IN /\ ~plotted.raised
           /\ Len(plotted.gantt_data) = AreaCount(phases, Len(phases))
           /\ \A n \in 1..Len(phases) : \A i \in 1..Len(AreasOf(phases[n])) :
                plotted.gantt_data[AreaCount(phases, n - 1) + i] =
                    [ Task |-> AreasOf(phases[n])[i],
                      Phase |-> Get(phases[n], K_phase),
                      Start |-> ExtractRange(Get(phases[n], K_phase))[1],
                      Finish |-> ExtractRange(Get(phases[n], K_phase))[2],
                      Milestones |->
                        Join(<<"\n">>, [k \in 1..Len(Get(phases[n], K_milestones).a) |->
                                            Get(phases[n], K_milestones).a[k].s]) ]

C8_Witness ==
    /\ Plotted
    /\ Len(PhasesOf(roadmap_data)) = 2
    /\ Len(plotted.gantt_data) = 3
    /\ plotted.gantt_data[1].Phase = StrV(<<"F">>)
    /\ plotted.gantt_data[2].Task = StrV(<<"A", "2">>)
    /\ plotted.gantt_data[2].Start = 0 /\ plotted.gantt_data[2].Finish = 3
    /\ plotted.gantt_data[3].Start = 6 /\ plotted.gantt_data[3].Finish = 3
    /\ plotted.gantt_data[3].Milestones = <<"m", "1", "\n", "m", "2">>

\* C9: with no phases (timeline empty or absent), or with phases that all
\* have no focus area, no record is built, the chart is not drawn and no
\* error is raised.
C9_NothingToRender ==
    (Plotted /\ \A n \in 1..Len(PhasesOf(roadmap_data)) :
                    AreasOf(PhasesOf(roadmap_data)[n]) = <<>>)
        => plotted = [raised |-> FALSE, gantt_data |-> <<>>, chart |-> FALSE]

C9_Witness ==
    /\ Plotted
    /\ Len(PhasesOf(roadmap_data)) = 2
    /\ \A n \in 1..2 : AreasOf(PhasesOf(roadmap_data)[n]) = <<>>
    /\ ~plotted.chart

(***************************************************************************)
(* A session: runs of main() on one st.session_state.                      *)
(***************************************************************************)
FullRoadmap == Roadmap(<<"X">>, << SamplePhase >>)

\* decodable roadmaps whose phase lacks a key the display reads
BrokenRoadmaps ==
    { Roadmap(<<"X">>, << ObjV(<< <<K_phase, StrV(<<"F">>)>>,
                                  <<K_focus_areas, ArrV(AreaNames(1))>>,
                                  <<K_tasks, ArrV(<<>>)>> >>) >>),
      Roadmap(<<"X">>, << ObjV(<< <<K_phase, StrV(<<"F">>)>>,
                                  <<K_focus_areas, ArrV(<<>>)>>,
                                  <<K_milestones, ArrV(<<>>)>> >>) >>) }

SessionResponses ==
    { StrV(Encode(v, <<>>)) : v \in SchemaRoadmaps \cup OtherValues \cup BrokenRoadmaps }
        \cup { StrV(JsonFence \o <<"\n">> \o Encode(FullRoadmap, <<" ">>) \o <<"\n">> \o Fence),
               StrV(JsonFence \o <<"\n">> \o Encode(FullRoadmap, <<>>)),
               StrV(<<"n", "o">>), StrV(<<>>), None, Raised }

InitSession ==
    /\ session_state = [roadmap |-> Absent]
    /\ page = Idle
    /\ IdleExtractor /\ IdleNormalizer /\ IdleTimeline

\* a run of main() in which the button was not clicked
RunWithoutClick ==
    /\ \E projects_ok, search_ok \in BOOLEAN :
          page' = [ result |-> Idle, warning |-> FALSE,
                    tabs |-> Tabs(session_state.roadmap, projects_ok, search_ok) ]
    /\ UNCHANGED << session_state, phase_name, label_parts, start_end, response,
                    payload_parts, result, roadmap_data, plotted >>

\* a run after a click with current_status or target_role empty, lines 147-148
RunClickIncomplete ==
    /\ \E projects_ok, search_ok \in BOOLEAN :
          page' = [ result |-> Idle, warning |-> TRUE,
                    tabs |-> Tabs(session_state.roadmap, projects_ok, search_ok) ]
    /\ UNCHANGED << session_state, phase_name, label_parts, start_end, response,
                    payload_parts, result, roadmap_data, plotted >>

\* a run after a click with both fields filled, lines 142-146, then the tabs
RunClickGenerate ==
    /\ \E resp \in SessionResponses, projects_ok, search_ok \in BOOLEAN :
          /\ session_state' =
                [roadmap |-> Store(session_state.roadmap, GenerateRoadmap(resp).ret)]
          /\ page' = [ result |-> GenerateRoadmap(resp), warning |-> FALSE,
                       tabs |-> Tabs(session_state'.roadmap, projects_ok, search_ok) ]
    /\ UNCHANGED << phase_name, label_parts, start_end, response, payload_parts, result,
                    roadmap_data, plotted >>

NextSession == RunWithoutClick \/ RunClickIncomplete \/ RunClickGenerate

Spec == InitSession /\ [][NextSession]_vars

\* the run that led to the next state generated and its response decoded
DecodedNext == page'.result # Idle /\ page'.result.error = ""

\* C6 as stated: the held Roadmap starts absent; every generation whose
\* response decoded replaces it by the decoded value, every other run leaves
\* it unchanged.
C6_HeldIsLastDecoded ==
    /\ session_state.roadmap = Absent
    /\ [][ IF DecodedNext THEN session_state'.roadmap = page'.result.ret
           ELSE session_state'.roadmap = session_state.roadmap ]_vars

\* C6 amended: the held Roadmap starts absent; every generation whose
\* response decoded to a non-empty (truthy) value replaces it by that value;
\* every other run (no click, empty fields, empty or malformed response,
\* service error, or a response decoding to null, false, 0, "", [] or {})
\* leaves it unchanged.
C6_HeldIsLastTruthyDecoded ==
    /\ session_state.roadmap = Absent
    /\ [][ IF DecodedNext /\ Truthy(page'.result.ret)
           THEN session_state'.roadmap = page'.result.ret
           ELSE session_state'.roadmap = session_state.roadmap ]_vars

C6_Witness ==
    /\ page # Idle
    /\ page.result # Idle
    /\ page.result.error = "Failed to parse JSON response. Raw response:"
    /\ session_state.roadmap = FullRoadmap

\* C7: in every run with a held Roadmap each of the three tabs is produced,
\* showing its content or its own error; a failure in one tab does not keep
\* the others from being produced.
C7_TabsFailIndependently ==
    (page # Idle /\ session_state.roadmap # Absent)
        => \A i \in 1..3 : page.tabs[i] \in {"shown", "error"}

(***************************************************************************)
(* Phase labels fed to the range extraction.                               *)
(***************************************************************************)
LabelChars == {"m", "(", ")", "-", "1", "2"}
Months == {0, 3, 12}
Units == { <<"m">>, <<" ", "m", "-", "m">> }

\* the numerals a range is written with: plain, and one with a leading zero
Numerals ==
    { [n |-> k, text |-> NatToStr(k)] : k \in Months }
        \cup { [n |-> 6, text |-> <<"0">> \o NatToStr(6)] }

\* "(a-b units)"
RangeText(a, b, units) == <<"(">> \o a.text \o <<"-">> \o b.text \o units \o <<")">>

NoParts == [wf |-> FALSE]

WellFormedParts ==
    { [wf |-> TRUE, pre |-> pre, a |-> a, b |-> b, units |-> u, post |-> post] :
        pre \in TextsUpTo(LabelChars, MaxPad), a \in Numerals, b \in Numerals,
        u \in Units, post \in TextsUpTo(LabelChars, MaxPad) }

LabelOf(parts) == parts.pre \o RangeText(parts.a, parts.b, parts.units) \o parts.post

\* labels that are not text (a decoded number, null, list)
NonTextLabels == { NumV(1), None, ArrV(<<>>) }

Has(s, c) == \E i \in 1..Len(s) : s[i] = c


InitExtract ==
    /\ \/ /\ label_parts \in WellFormedParts
          /\ phase_name = StrV(LabelOf(label_parts))
       \/ /\ label_parts = NoParts
          /\ phase_name \in { StrV(s) : s \in TextsUpTo(LabelChars, MaxLabelLen) }
                              \cup NonTextLabels
    /\ start_end = Idle
    /\ IdleNormalizer /\ IdleTimeline /\ IdleSession

\* one pass of the loop body, lines 86-96
ParsePhaseLabel ==
    /\ start_end = Idle
    /\ start_end' = ExtractRange(phase_name)
    /\ UNCHANGED << phase_name, label_parts, response, payload_parts, result,
                    roadmap_data, plotted, session_state, page >>

NextExtract == ParsePhaseLabel

SpecExtract == InitExtract /\ [][NextExtract]_vars

Parsed == start_end # Idle

\* C1 as stated: a label containing a well-formed "(a-b units)" range yields
\* Start = a and Finish = b whatever text surrounds the range, further
\* parentheses after it included.
C1_AnySurroundingText ==
    (Parsed /\ label_parts.wf) => start_end = << label_parts.a.n, label_parts.b.n >>

\* C1 amended: a label containing a well-formed "(a-b units)" range yields
\* Start = a and Finish = b provided no "(" follows the range in the label;
\* text before the range (parentheses, dashes, digits) and text after it
\* without "(" do not matter.
C1_LastParenthesisedRange ==
    (Parsed /\ label_parts.wf /\ ~Has(label_parts.post, "("))
        => start_end = << label_parts.a.n, label_parts.b.n >>

C1_Witness ==
    /\ Parsed /\ label_parts.wf
    /\ Has(label_parts.pre, "(") /\ Has(label_parts.post, "2")
    /\ label_parts.a.text = <<"0", "6">> /\ label_parts.b.n = 12
    /\ label_parts.units = <<" ", "m", "-", "m">>
    /\ start_end = <<6, 12>>

NoParens(s) == ~Has(s, "(") /\ ~Has(s, ")")
NoDash(s) == ~Has(s, "-")
NoDigitsInPieces(s) == \A i \in 1..Len(Pieces(s)) : DigitsOf(Pieces(s)[i]) = <<>>

\* C2: a label that lacks parentheses, or lacks a dash, or whose range pieces
\* hold no digit, yields the fallback (0, 3); a label without parentheses
\* never yields another range, even when it holds a dash and digits.
C2_FallbackWithoutParentheses ==
    (Parsed /\ phase_name.t = "str"
        /\ (NoParens(phase_name.s) \/ NoDash(phase_name.s) \/ NoDigitsInPieces(phase_name.s)))
        => start_end = Fallback

\* C10: Start and Finish of every parsed label are non-negative integers,
\* either the fallback pair or the integers made of the digits of the first
\* two dash-separated pieces; their order is not constrained.
C10_NonNegativeRange ==
    Parsed =>
        /\ start_end[1] \in Nat /\ start_end[2] \in Nat
        /\ \/ start_end = Fallback
           \/ /\ phase_name.t = "str"
              /\ Len(Pieces(phase_name.s)) = 2
              /\ start_end = << ToInt(DigitsOf(Pieces(phase_name.s)[1])),
                                ToInt(DigitsOf(Pieces(phase_name.s)[2])) >>

C10_Witness ==
    /\ Parsed /\ phase_name.t = "str"
    /\ start_end[1] > start_end[2]
    /\ start_end # Fallback

====
